---------------------------- MODULE Spec2Model ----------------------------
(***************************************************************************)
(* A model of the morning-pulse NLP pipeline (services/nlp-py).            *)
(*                                                                         *)
(*   Spec       the job queue dispatcher of lib/job_processor.py: workers  *)
(*              polling the jobs table, claiming with FOR UPDATE SKIP      *)
(*              LOCKED, completing, retrying with backoff, failing.        *)
(*   SpecStop   the same workers at a fixed instant, with SIGINT arriving   *)
(*              at any statement of the loop of start().                   *)
(*   SpecDb     with get_cursor() blocks of lib/db.py, one after another.   *)
(*   SpecDedup  executions of DeduplicationWorker.process_job of           *)
(*              workers/deduplicator.py against the articles and clusters  *)
(*              tables, one database transaction per step.                 *)
(*   SpecSum    executions of SummarizationWorker.process_job of           *)
(*              workers/summarizer.py; a text is the sequence of its       *)
(*              characters and the regular expressions are matched as re   *)
(*              matches them.                                              *)
(*                                                                         *)
(* Instants are whole minutes; datetime.replace(minute=..) keeps every     *)
(* other field, so an instant t has minute-of-hour t % 60.                 *)
(* A nullable column holds <<>> (NULL) or <<v>>.                           *)
(***************************************************************************)
EXTENDS Integers, Sequences, FiniteSets, TLC

(* ------------------------------ bounds -------------------------------- *)

\* the last instant of the wall clock
MaxNow == 60
\* the clock starts at any instant of MinStart..MaxNow
MinStart == 56
\* max_attempts of an enqueued job ranges over 0..MaxMaxAttempts
MaxMaxAttempts == 3

Workers == {"w1", "w2"}
JobIds == {"j1", "j2", "j3"}
JobTypes == {"deduplication", "summarization"}
NoWorker == "none"
NULL == <<>>

Some(v) == <<v>>

\* JobProcessor.__init__(job_type): both workers are DeduplicationWorkers
job_type(w) == "deduplication"

\* what str(e) can be: an error of process_job, an error of _complete_job
ProcessError == "process_job raised"
CompleteError == "complete_job raised"
\* what process_job can return
ResultOk == "result"

VARIABLES
    now,        \* the wall clock, datetime.now()
    jobs,       \* the committed rows of the jobs table
    locked,     \* the row locks held by open claim transactions
    running,    \* JobProcessor.running of each worker
    pc,         \* where each worker is in start()/_execute_job
    job,        \* the row _dequeue_job returned to each worker (or is claiming)
    outcome,    \* what process_job returned, or the error that was caught
    nclaims,    \* history: how often each job was returned by a claim
    nretries,   \* history: how often each job was put back to pending
    pool,       \* db._connection_pool of each worker process: "none", "open"
                \* or "closed"
    articles,   \* the columns of the articles table the deduplicator writes
    clusters,   \* the clusters table: clusters[c] is rep_article_id of row c
    lsh,        \* DeduplicationWorker.lsh, the keys and MinHashes inserted
    dpc,        \* where DeduplicationWorker.process_job is
    fetched,    \* the rows _fetch_articles returned
    todo,       \* the fetched rows the for loop has not reached yet
    article,    \* the loop variable of process_job
    target,     \* the cluster _assign_to_cluster was called with
    counters,   \* clusters_created and articles_clustered
    returned,   \* what the last execution of process_job returned
    runs,       \* history: how many executions of process_job were started
    firstOf,    \* the key list(candidates)[0] gave for each candidate set
    payload,    \* history: article_ids of the last execution and its NOW()
    history,    \* history: the executions of this payload that returned,
                \* oldest first, since another payload was last executed
    origin,     \* history: origin[c] is the payload, the article and the
                \* execution that cluster c was created for
    \* SummarizationWorker.process_job
    summary_2,  \* articles.summary_2 of each article
    spc,        \* "idle" or "loop"
    sfetched,   \* articles: the rows _fetch_articles returned
    stodo,      \* the rows the loop has not reached yet
    scounters,  \* summaries_generated, summaries_verified, summaries_failed
    sreturned,  \* NULL or the result the last execution returned
    sruns,      \* executions started so far
    generated,  \* NULL or what generate_summary last returned, and for which
                \* article
    spayload,   \* history: payload["article_ids"] of the last execution
    \* lib/db.py: get_connection / get_cursor
    committed,  \* the rows of the database every connection sees
    conn,       \* the pooled connection: the rows its transaction sees and
                \* its transaction status
    used,       \* the connections checked out of the pool
    dbpc,       \* where get_cursor is
    exc,        \* the exception propagating out of the with block
    nwrites,    \* cursor.execute calls of the body so far
    commits,    \* conn.commit() calls of this get_cursor
    ops,        \* history: get_cursor blocks left so far
    entry,      \* history: committed and used when get_cursor was entered
    expected,   \* history: entry.committed with the writes of the body
    fate        \* history: how the body ended

qvars == <<jobs, locked, running, pc, job, outcome, nclaims, nretries, pool>>
dvars == <<articles, clusters, lsh, dpc, fetched, todo, article, target,
           counters, returned, runs, firstOf, payload, history, origin>>
svars == <<summary_2, spc, sfetched, stodo, scounters, sreturned, sruns,
           generated, spayload>>
bvars == <<committed, conn, used, dbpc, exc, nwrites, commits, ops, entry,
           expected, fate>>
vars == <<now, qvars, dvars, bvars, svars, bvars>>

NoJob == [id |-> "none", attempts |-> 0, max_attempts |-> 0, at |-> 0]

(* ------------------------ _dequeue_job ------------------------------- *)

\* a mutant of Eligible: the status filter is left out
EligibleAnyStatus(j, T, t) ==
    /\ jobs[j].type = T
    /\ jobs[j].scheduled_for <= t

\* a mutant of Eligible: a job left in processing is claimed again
EligibleOrStale(j, T, t) ==
    /\ jobs[j].type = T
    /\ jobs[j].status \in {"pending", "processing"}
    /\ jobs[j].scheduled_for <= t

\* a mutant of Eligible: the scheduled_for filter is left out
EligibleAnyTime(j, T, t) ==
    /\ jobs[j].type = T
    /\ jobs[j].status = "pending"

\* WHERE type = %s AND status = 'pending' AND scheduled_for <= %s
Eligible(j, T, t) ==
    /\ jobs[j].type = T
    /\ jobs[j].status = "pending"
    /\ jobs[j].scheduled_for <= t

\* a mutant of SkipLocked: a plain SELECT, which takes and sees no row lock
SkipNothing(j) == TRUE

\* FOR UPDATE SKIP LOCKED: rows locked by another transaction are passed over
SkipLocked(j) == locked[j] = NoWorker

\* a mutant of Candidates: LIMIT 1 without the ORDER BY
CandidatesAnyOrder(T, t) ==
    {j \in JobIds : Eligible(j, T, t) /\ SkipLocked(j)}

\* the rows the subquery can return: ORDER BY scheduled_for ASC LIMIT 1
Candidates(T, t) ==
    LET E == {j \in JobIds : Eligible(j, T, t) /\ SkipLocked(j)}
    IN  {j \in E : \A k \in E : jobs[j].scheduled_for <= jobs[k].scheduled_for}

\* a mutant of ClaimedRow: attempts is not incremented
ClaimedRowSameAttempts(r, t) ==
    [r EXCEPT !.status = "processing",
              !.started_at = Some(t),
              !.updated_at = Some(t)]

\* SET status = 'processing', started_at = now, attempts = attempts + 1, updated_at = now
ClaimedRow(r, t) ==
    [r EXCEPT !.status = "processing",
              !.started_at = Some(t),
              !.attempts = r.attempts + 1,
              !.updated_at = Some(t)]

\* _dequeue_job, the statement: the subquery finds and locks a row (the UPDATE
\* of it is not visible before the commit), or finds none and None is returned
DequeueExecute(w) ==
    /\ pc[w] = "loop"
    /\ running[w]
    /\ \/ \E j \in Candidates(job_type(w), now) :
            /\ locked' = [locked EXCEPT ![j] = w]
            /\ job' = [job EXCEPT ![w] = [id |-> j, attempts |-> 0,
                                          max_attempts |-> 0, at |-> now]]
            /\ pc' = [pc EXCEPT ![w] = "claim"]
       \/ /\ Candidates(job_type(w), now) = {}
          /\ pc' = [pc EXCEPT ![w] = "sleep"]
          /\ UNCHANGED <<locked, job>>
    /\ UNCHANGED <<now, jobs, running, outcome, nclaims, nretries, pool,
                   dvars, svars, bvars>>

\* _dequeue_job, the commit at the exit of get_cursor: the row is written,
\* the lock released and RETURNING id, attempts, max_attempts handed back
DequeueCommit(w) ==
    /\ pc[w] = "claim"
    /\ LET j == job[w].id
           r == ClaimedRow(jobs[j], job[w].at)
       IN  /\ jobs' = [jobs EXCEPT ![j] = r]
           /\ locked' = [locked EXCEPT ![j] = NoWorker]
           /\ job' = [job EXCEPT ![w] = [id |-> j, attempts |-> r.attempts,
                                         max_attempts |-> r.max_attempts,
                                         at |-> job[w].at]]
           /\ nclaims' = [nclaims EXCEPT ![j] = @ + 1]
    /\ pc' = [pc EXCEPT ![w] = "process"]
    /\ UNCHANGED <<now, running, outcome, nretries, pool,
                   dvars, svars, bvars>>

(* ------------------------ _execute_job ------------------------------- *)

\* result = self.process_job(payload): returns a result or raises
ProcessJob(w) ==
    /\ pc[w] = "process"
    /\ \/ /\ outcome' = [outcome EXCEPT ![w] = ResultOk]
          /\ pc' = [pc EXCEPT ![w] = "complete"]
       \/ /\ outcome' = [outcome EXCEPT ![w] = ProcessError]
          /\ pc' = [pc EXCEPT ![w] = "fail"]
    /\ UNCHANGED <<now, jobs, locked, running, job, nclaims, nretries, pool,
                   dvars, svars, bvars>>

\* SET status = 'completed', result = %s, completed_at = now, updated_at = now
CompletedRow(r, res, t) ==
    [r EXCEPT !.status = "completed",
              !.result = Some(res),
              !.completed_at = Some(t),
              !.updated_at = Some(t)]

\* _complete_job: the update commits, or json.dumps(result) / the update
\* raises, nothing is written and _execute_job's except clause takes over
CompleteJob(w) ==
    /\ pc[w] = "complete"
    /\ \/ /\ jobs' = [jobs EXCEPT ![job[w].id] = CompletedRow(@, outcome[w], now)]
          /\ pc' = [pc EXCEPT ![w] = "loop"]
          /\ job' = [job EXCEPT ![w] = NoJob]
          /\ outcome' = [outcome EXCEPT ![w] = "none"]
       \/ /\ outcome' = [outcome EXCEPT ![w] = CompleteError]
          /\ pc' = [pc EXCEPT ![w] = "fail"]
          /\ UNCHANGED <<jobs, job>>
    /\ UNCHANGED <<now, locked, running, nclaims, nretries, pool,
                   dvars, svars, bvars>>

(* --------------------------- _fail_job ------------------------------- *)

\* a mutant of should_retry: one retry too many
should_retry_le(attempts, max_attempts) == attempts <= max_attempts

\* should_retry = attempts < max_attempts
should_retry(attempts, max_attempts) == attempts < max_attempts

\* backoff_minutes = 2 ** (attempts - 1)
backoff_minutes(attempts) == 2 ^ (attempts - 1)

\* datetime.replace(minute=m) raises ValueError unless 0 <= m <= 59
MinuteInRange(m) == m \in 0..59

\* datetime.replace(minute=m): the same instant with its minute field set to m
ReplaceMinute(t, m) == (t - (t % 60)) + m

\* SET status = 'pending', scheduled_for = %s, error_message = %s, updated_at = now
RetryRow(r, sched, err, t) ==
    [r EXCEPT !.status = "pending",
              !.scheduled_for = sched,
              !.error_message = Some(err),
              !.updated_at = Some(t)]

\* a mutant of FailedRow: the error is not stored
FailedRowNoError(r, err, t) ==
    [r EXCEPT !.status = "failed",
              !.completed_at = Some(t),
              !.updated_at = Some(t)]

\* SET status = 'failed', error_message = %s, completed_at = now, updated_at = now
FailedRow(r, err, t) ==
    [r EXCEPT !.status = "failed",
              !.error_message = Some(err),
              !.completed_at = Some(t),
              !.updated_at = Some(t)]

\* _fail_job(job_id, job["attempts"], job["max_attempts"], str(e)), called in
\* the except clause of _execute_job.  A ValueError of replace() is raised
\* inside that clause: it leaves _execute_job and the loop of start(), whose
\* finally clause calls stop().
FailJob(w) ==
    /\ pc[w] = "fail"
    /\ LET j == job[w].id
           a == job[w].attempts
           m == (now % 60) + backoff_minutes(a)
       IN  IF should_retry(a, job[w].max_attempts)
           THEN IF MinuteInRange(m)
                THEN /\ jobs' = [jobs EXCEPT ![j] =
                                    RetryRow(@, ReplaceMinute(now, m), outcome[w], now)]
                     /\ nretries' = [nretries EXCEPT ![j] = @ + 1]
                     /\ pc' = [pc EXCEPT ![w] = "loop"]
                     /\ job' = [job EXCEPT ![w] = NoJob]
                     /\ outcome' = [outcome EXCEPT ![w] = "none"]
                     /\ UNCHANGED running
                ELSE /\ pc' = [pc EXCEPT ![w] = "crashed"]
                     /\ running' = [running EXCEPT ![w] = FALSE]
                     /\ UNCHANGED <<jobs, nretries, job, outcome>>
           ELSE /\ jobs' = [jobs EXCEPT ![j] = FailedRow(@, outcome[w], now)]
                /\ pc' = [pc EXCEPT ![w] = "loop"]
                /\ job' = [job EXCEPT ![w] = NoJob]
                /\ outcome' = [outcome EXCEPT ![w] = "none"]
                /\ UNCHANGED <<running, nretries>>
    /\ UNCHANGED <<now, locked, nclaims, pool,
                   dvars, svars, bvars>>

(* ----------------------------- start --------------------------------- *)

\* db.initialize_pool(): a pool is created unless there is one already
\* (DATABASE_URL is set)
initialize_pool(p) == IF p # "none" THEN p ELSE "open"

\* db.close_pool(): closeall() and _connection_pool = None; neither start()
\* nor stop() calls it
close_pool(p) == "none"

\* start(): self.running = True, initialize_pool(), then the loop
Start(w) ==
    /\ pc[w] = "init"
    /\ running' = [running EXCEPT ![w] = TRUE]
    /\ pool' = [pool EXCEPT ![w] = initialize_pool(@)]
    /\ pc' = [pc EXCEPT ![w] = "loop"]
    /\ UNCHANGED <<now, jobs, locked, job, outcome, nclaims, nretries,
                   dvars, svars, bvars>>

\* SIGINT while start() is in its try block: KeyboardInterrupt is raised at
\* the statement under way.  It is no Exception, so _execute_job does not
\* catch it and get_cursor does not commit: an open claim is rolled back when
\* its connection goes back to the pool.  except KeyboardInterrupt in start()
\* catches it and the finally clause calls stop(): running = False.
Interrupt(w) ==
    /\ pc[w] \in {"loop", "claim", "process", "complete", "fail", "sleep"}
    /\ pc' = [pc EXCEPT ![w] = "stopped"]
    /\ running' = [running EXCEPT ![w] = FALSE]
    /\ locked' = [j \in JobIds |-> IF locked[j] = w THEN NoWorker ELSE locked[j]]
    /\ job' = [job EXCEPT ![w] = IF pc[w] = "claim" THEN NoJob ELSE @]
    /\ UNCHANGED <<now, jobs, outcome, nclaims, nretries, pool, dvars, svars, bvars>>

\* time.sleep(self.poll_interval) returns
Sleep(w) ==
    /\ pc[w] = "sleep"
    /\ pc' = [pc EXCEPT ![w] = "loop"]
    /\ UNCHANGED <<now, jobs, locked, running, job, outcome, nclaims, nretries, pool,
                   dvars, svars, bvars>>

\* the wall clock advances by a minute
Tick ==
    /\ now < MaxNow
    /\ now' = now + 1
    /\ UNCHANGED <<jobs, locked, running, pc, job, outcome, nclaims, nretries, pool,
                   dvars, svars, bvars>>


(* ===================== workers/deduplicator.py ======================== *)

\* executions of process_job that SpecDedup starts
MaxRuns == 2
\* the last instant of the wall clock of SpecDedup
MaxDedupNow == 1

\* self.similarity_threshold = 0.85, in percent
similarity_threshold == 85
\* INTERVAL '48 hours', in minutes
WindowMinutes == 2880

ArticleIds == {"a1", "a2", "a3", "a4", "a5"}

\* payload["article_ids"] of the jobs that are executed
Payloads ==
    {{}, {"a1"}, {"a5"}, {"a1", "a2"}, {"a3", "a1"}, {"a5", "a1"},
     {"a5", "a3"}, ArticleIds}

\* a string column: the tokens tokenize() finds in it and its LENGTH
Str(tokens, len) == Some([tokens |-> tokens, len |-> len])

\* the articles table as the crawler wrote it.  a1 and a2 have the same title
\* and summary_raw; a3 and a5 are near-duplicates of a1 (Jaccard 6/7) but not
\* of each other (5/7) and are newer than a1; a2 was published exactly 48
\* hours ago; a4 was published 72 hours ago
ArticleRow(a) ==
    CASE a = "a1" -> [title |-> Str(1..7, 30), summary_raw |-> NULL,
                      content |-> Str({}, 100), ts_published |-> 0 - 300,
                      source_id |-> "s1"]
      [] a = "a2" -> [title |-> Str(1..7, 30), summary_raw |-> NULL,
                      content |-> NULL, ts_published |-> 0 - WindowMinutes,
                      source_id |-> "s2"]
      [] a = "a3" -> [title |-> Str(1..5, 25), summary_raw |-> Str({6}, 100),
                      content |-> NULL, ts_published |-> 0 - 180,
                      source_id |-> "s3"]
      [] a = "a4" -> [title |-> Str(1..7, 30), summary_raw |-> NULL,
                      content |-> Str({}, 500), ts_published |-> 0 - 4320,
                      source_id |-> "s1"]
      [] OTHER    -> [title |-> Str(2..7, 28), summary_raw |-> NULL,
                      content |-> Str({}, 100), ts_published |-> 0 - 120,
                      source_id |-> "s2"]

\* the sources table: trust_score by id; a3's source has no row
SourceIds == {"s1", "s2"}
trust_score(s) == IF s = "s1" THEN 5 ELSE 9

\* text = f"{article['title']} {article['summary_raw'] or ''}", tokenized
TextTokens(a) ==
    LET r == ArticleRow(a)
    IN  r.title[1].tokens \cup
        (IF r.summary_raw = NULL THEN {} ELSE r.summary_raw[1].tokens)

\* compute_simhash(text): a fingerprint that the tokens of the text determine
compute_simhash(a) == <<"simhash", TextTokens(a)>>

\* compute_minhash(text): a sketch of the token set of the text
compute_minhash(a) == TextTokens(a)

\* MinHashLSH(threshold): two sketches meet when the Jaccard similarity of
\* their token sets reaches the threshold; equal sketches always meet
Similar(A, B) ==
    \/ A = B
    \/ 100 * Cardinality(A \cap B) >= similarity_threshold * Cardinality(A \cup B)

\* self.lsh.query(minhash): the keys inserted with a similar MinHash
LshQuery(m) == {e.key : e \in {x \in lsh : Similar(x.minhash, m)}}

\* similar[0]: query() returns list(candidates); the order of a set of uuid
\* strings is arbitrary, but the same set is listed in the same order
FirstKeys(cands) ==
    IF \E p \in firstOf : p[1] = cands
    THEN {p[2] : p \in {q \in firstOf : q[1] = cands}}
    ELSE cands

\* a mutant of FetchArticles: the 48 hour filter is left out
FetchArticlesNoWindow(ids, t) == ids \cap ArticleIds

\* _fetch_articles: WHERE id IN (..) AND ts_published >= NOW() - INTERVAL '48 hours'
FetchArticles(ids, t) ==
    {a \in ids \cap ArticleIds : ArticleRow(a).ts_published >= t - WindowMinutes}

\* a mutant of NextArticles: the rows come in any order
NextArticlesAnyOrder(S) == S

\* ORDER BY ts_published DESC: the rows the for loop can reach next
NextArticles(S) ==
    {a \in S : \A b \in S : ArticleRow(a).ts_published >= ArticleRow(b).ts_published}

\* COALESCE(LENGTH(a.content), LENGTH(a.summary_raw), LENGTH(a.title), 0)
ContentLength(a) ==
    LET r == ArticleRow(a)
    IN  IF r.content # NULL THEN r.content[1].len
        ELSE IF r.summary_raw # NULL THEN r.summary_raw[1].len
        ELSE IF r.title # NULL THEN r.title[1].len
        ELSE 0

\* LEFT JOIN sources s ON s.id = a.source_id ... COALESCE(s.trust_score, 0)
TrustOf(a) ==
    IF ArticleRow(a).source_id \in SourceIds
    THEN trust_score(ArticleRow(a).source_id) ELSE 0

\* ORDER BY length DESC, trust DESC, ts_published DESC: a precedes b
Precedes(a, b) ==
    \/ ContentLength(a) > ContentLength(b)
    \/ /\ ContentLength(a) = ContentLength(b)
       /\ \/ TrustOf(a) > TrustOf(b)
          \/ /\ TrustOf(a) = TrustOf(b)
             /\ ArticleRow(a).ts_published >= ArticleRow(b).ts_published

\* WHERE a.cluster_id = %s
Members(c) == {a \in ArticleIds : articles[a].cluster_id = Some(c)}

\* the rows the SELECT .. LIMIT 1 of _recompute_representative can return
FirstMembers(c) ==
    {a \in Members(c) : \A b \in Members(c) : Precedes(a, b)}

NoCounters == [clusters_created |-> 0, articles_clustered |-> 0]

\* process_job up to the for loop: the payload check, a fresh LSH index,
\* the fetch
DedupStart(ids) ==
    /\ dpc = "idle"
    /\ runs < MaxRuns
    /\ runs' = runs + 1
    /\ returned' = NULL
    /\ payload' = [ids |-> ids, at |-> now]
    /\ IF ids = {}
       THEN UNCHANGED <<lsh, dpc, fetched, todo, article, target, counters,
                        firstOf>>
       ELSE /\ lsh' = {}
            /\ firstOf' = {}
            /\ fetched' = FetchArticles(ids, now)
            /\ todo' = FetchArticles(ids, now)
            /\ counters' = NoCounters
            /\ dpc' = "loop"
            /\ UNCHANGED <<article, target>>
    /\ history' = IF ids = payload.ids THEN history ELSE <<>>
    /\ UNCHANGED <<now, qvars, svars, bvars, articles, clusters, origin>>

\* the next article of the loop, its hashes, and _update_article_simhash
UpdateArticleSimhash ==
    /\ dpc = "loop"
    /\ \E a \in NextArticles(todo) :
          /\ article' = a
          /\ todo' = todo \ {a}
          /\ articles' = [articles EXCEPT ![a].simhash = Some(compute_simhash(a))]
    /\ dpc' = "query"
    /\ UNCHANGED <<now, qvars, svars, bvars, clusters, lsh, fetched, target, counters,
                   returned, runs, firstOf, payload, history, origin>>

\* similar is non-empty: cluster_id = similar[0] and the UPDATE of
\* _assign_to_cluster, which execute_update commits
AssignToCluster ==
    /\ dpc = "query"
    /\ \E c \in FirstKeys(LshQuery(compute_minhash(article))) :
          /\ articles' = [articles EXCEPT ![article].cluster_id = Some(c)]
          /\ target' = c
          /\ firstOf' = firstOf \cup {<<LshQuery(compute_minhash(article)), c>>}
    /\ dpc' = "recompute"
    /\ UNCHANGED <<now, qvars, svars, bvars, clusters, lsh, fetched, todo, article, counters,
                   returned, runs, payload, history, origin>>

\* _recompute_representative in its own transaction, then the return to
\* process_job and articles_clustered += 1
RecomputeRepresentative ==
    /\ dpc = "recompute"
    /\ IF Members(target) = {}
       THEN UNCHANGED clusters
       ELSE \E rep \in FirstMembers(target) :
               clusters' = [clusters EXCEPT ![target] = rep]
    /\ counters' = [counters EXCEPT !.articles_clustered = @ + 1]
    /\ dpc' = "loop"
    /\ UNCHANGED <<now, qvars, svars, bvars, articles, lsh, fetched, todo, article, target,
                   returned, runs, firstOf, payload, history, origin>>

\* a mutant of CreateCluster: the new cluster is not inserted into the index
CreateClusterNoInsert ==
    /\ dpc = "query"
    /\ LshQuery(compute_minhash(article)) = {}
    /\ LET c == Len(clusters) + 1
       IN  /\ clusters' = Append(clusters, article)
           /\ articles' = [articles EXCEPT ![article].cluster_id = Some(c)]
    /\ origin' = Append(origin, [ids |-> payload.ids, founder |-> article, run |-> runs])
    /\ counters' = [counters EXCEPT !.clusters_created = @ + 1]
    /\ dpc' = "loop"
    /\ UNCHANGED <<now, qvars, svars, bvars, lsh, fetched, todo, article, target, returned,
                   runs, firstOf, payload, history>>

\* similar is empty: _create_cluster inserts the cluster and assigns the
\* article in one transaction, then lsh.insert and clusters_created += 1
CreateCluster ==
    /\ dpc = "query"
    /\ LshQuery(compute_minhash(article)) = {}
    /\ LET c == Len(clusters) + 1
       IN  /\ clusters' = Append(clusters, article)
           /\ articles' = [articles EXCEPT ![article].cluster_id = Some(c)]
           /\ lsh' = lsh \cup {[key |-> c, minhash |-> compute_minhash(article)]}
    /\ origin' = Append(origin, [ids |-> payload.ids, founder |-> article, run |-> runs])
    /\ counters' = [counters EXCEPT !.clusters_created = @ + 1]
    /\ dpc' = "loop"
    /\ UNCHANGED <<now, qvars, svars, bvars, fetched, todo, article, target, returned, runs,
                   firstOf, payload, history>>

\* process_job is left: its locals are gone and the index is never read
\* again (the next execution builds a new one)
Discard ==
    /\ lsh' = {}
    /\ firstOf' = {}
    /\ fetched' = {}
    /\ todo' = {}
    /\ article' = "none"
    /\ target' = 0
    /\ counters' = NoCounters

\* a mutant of DedupReturn: articles_processed is len(article_ids)
DedupReturnCountsPayload ==
    /\ dpc = "loop"
    /\ todo = {}
    /\ returned' = Some([articles_processed |-> Cardinality(payload.ids),
                         articles_clustered |-> counters.articles_clustered,
                         clusters_created |-> counters.clusters_created])
    /\ history' = Append(history,
                          [ids |-> payload.ids,
                           cluster_id |-> [a \in ArticleIds |-> articles[a].cluster_id]])
    /\ dpc' = "idle"
    /\ Discard
    /\ UNCHANGED <<now, qvars, svars, bvars, articles, clusters, runs, payload, origin>>

\* the loop is over: process_job returns its result
DedupReturn ==
    /\ dpc = "loop"
    /\ todo = {}
    /\ returned' = Some([articles_processed |-> Cardinality(fetched),
                         articles_clustered |-> counters.articles_clustered,
                         clusters_created |-> counters.clusters_created])
    /\ history' = Append(history,
                          [ids |-> payload.ids,
                           cluster_id |-> [a \in ArticleIds |-> articles[a].cluster_id]])
    /\ dpc' = "idle"
    /\ Discard
    /\ UNCHANGED <<now, qvars, svars, bvars, articles, clusters, runs, payload, origin>>

\* a statement of the loop raises: its transaction is rolled back and the
\* error leaves process_job (per-article failures fail the job)
DedupRaise ==
    /\ dpc \in {"loop", "query", "recompute"}
    /\ dpc' = "idle"
    /\ Discard
    /\ UNCHANGED <<now, qvars, svars, bvars, articles, clusters, returned, runs, payload,
                   history, origin>>

\* the wall clock advances by a minute
DedupTick ==
    /\ now < MaxDedupNow
    /\ now' = now + 1
    /\ UNCHANGED <<qvars, dvars, svars, bvars>>

\* no execution of process_job has started
DedupIdle ==
    /\ articles = [a \in ArticleIds |-> [simhash |-> NULL, cluster_id |-> NULL]]
    /\ clusters = <<>>
    /\ lsh = {}
    /\ dpc = "idle"
    /\ fetched = {}
    /\ todo = {}
    /\ article = "none"
    /\ target = 0
    /\ counters = NoCounters
    /\ returned = NULL
    /\ runs = 0
    /\ firstOf = {}
    /\ payload = [ids |-> {}, at |-> 0]
    /\ history = <<>>
    /\ origin = <<>>

(* ======================= workers/summarizer.py ======================== *)

\* a process executes at most MaxSumRuns summarization jobs
MaxSumRuns == 1

\* A str is the sequence of its characters, each a one-character string.

Digits == {"0", "1", "2", "3", "4", "5", "6", "7", "8", "9"}
\* \d
IsDigit(c) == c \in Digits
\* \s, str.strip(), str.split()
IsSpace(c) == c \in {" ", "\n", "\t"}

UpperCase ==
    <<"A", "B", "C", "D", "E", "F", "G", "H", "I", "J", "K", "L", "M",
      "N", "O", "P", "Q", "R", "S", "T", "U", "V", "W", "X", "Y", "Z">>
LowerCase ==
    <<"a", "b", "c", "d", "e", "f", "g", "h", "i", "j", "k", "l", "m",
      "n", "o", "p", "q", "r", "s", "t", "u", "v", "w", "x", "y", "z">>

\* str.lower() and re.IGNORECASE on one character
Lower(c) ==
    IF \E i \in 1..26 : UpperCase[i] = c
    THEN LowerCase[CHOOSE i \in 1..26 : UpperCase[i] = c]
    ELSE c

\* sentence.lower()
LowerStr(s) == [i \in 1..Len(s) |-> Lower(s[i])]

\* the least and the greatest element of a non-empty set of indices
Least(I) == CHOOSE i \in I : \A j \in I : i <= j
Greatest(I) == CHOOSE i \in I : \A j \in I : i >= j

\* the character at index i, "" past the end of the text
At(t, i) == IF i \in 1..Len(t) THEN t[i] ELSE ""

(* ------------------------- extract_numbers --------------------------- *)
\* A pattern is matched at an index i of the text; the result is the index
\* after the match, 0 when the pattern does not match at i.

RECURSIVE DigitsEnd(_, _)
\* \d* at i, greedy
DigitsEnd(t, i) == IF IsDigit(At(t, i)) THEN DigitsEnd(t, i + 1) ELSE i

RECURSIVE SpacesEnd(_, _)
\* \s* at i, greedy
SpacesEnd(t, i) == IF IsSpace(At(t, i)) THEN SpacesEnd(t, i + 1) ELSE i

\* (?:\.\d+)? at i
FractionEnd(t, i) ==
    IF At(t, i) = "." /\ IsDigit(At(t, i + 1))
    THEN DigitsEnd(t, i + 1)
    ELSE i

\* [\$£€¥]\s?\d+(?:\.\d+)?(?:[BMK])?
CurrencyEnd(t, i) ==
    LET k == IF IsSpace(At(t, i + 1)) THEN i + 2 ELSE i + 1
        e == FractionEnd(t, DigitsEnd(t, k))
    IN  IF At(t, i) \in {"$", "£", "€", "¥"} /\ IsDigit(At(t, k))
        THEN IF Lower(At(t, e)) \in {"b", "m", "k"} THEN e + 1 ELSE e
        ELSE 0

\* [+-]?\d+(?:\.\d+)?%
PercentageEnd(t, i) ==
    LET k == IF At(t, i) \in {"+", "-"} THEN i + 1 ELSE i
        e == FractionEnd(t, DigitsEnd(t, k))
    IN  IF IsDigit(At(t, k)) /\ At(t, e) = "%" THEN e + 1 ELSE 0

\* ,\d{3} at k
IsGroup(t, k) ==
    /\ At(t, k) = ","
    /\ \A d \in 1..3 : IsDigit(At(t, k + d))

RECURSIVE GroupsEnd(_, _)
\* (?:,\d{3})* at k, greedy
GroupsEnd(t, k) == IF IsGroup(t, k) THEN GroupsEnd(t, k + 4) ELSE k

\* \d{1,3}(?:,\d{3})+(?:\.\d+)?
NumberEnd(t, i) ==
    LET d == DigitsEnd(t, i)
        k == IF d - i > 3 THEN i + 3 ELSE d
    IN  IF IsDigit(At(t, i)) /\ IsGroup(t, k)
        THEN FractionEnd(t, GroupsEnd(t, k))
        ELSE 0

\* \d+\.\d+
DecimalEnd(t, i) ==
    LET d == DigitsEnd(t, i)
    IN  IF IsDigit(At(t, i)) /\ At(t, d) = "." /\ IsDigit(At(t, d + 1))
        THEN DigitsEnd(t, d + 1)
        ELSE 0

\* Jan|Feb|Mar|Apr|May|Jun|Jul|Aug|Sep|Oct|Nov|Dec under re.IGNORECASE
Months ==
    {<<"j", "a", "n">>, <<"f", "e", "b">>, <<"m", "a", "r">>,
     <<"a", "p", "r">>, <<"m", "a", "y">>, <<"j", "u", "n">>,
     <<"j", "u", "l">>, <<"a", "u", "g">>, <<"s", "e", "p">>,
     <<"o", "c", "t">>, <<"n", "o", "v">>, <<"d", "e", "c">>}

\* \d{4}-\d{2}-\d{2}
IsoDateEnd(t, i) ==
    IF /\ \A d \in {0, 1, 2, 3, 5, 6, 8, 9} : IsDigit(At(t, i + d))
       /\ At(t, i + 4) = "-"
       /\ At(t, i + 7) = "-"
    THEN i + 10
    ELSE 0

\* (?:Jan|..|Dec)\s+\d{1,2},?\s+\d{4}
MonthDateEnd(t, i) ==
    LET s == SpacesEnd(t, i + 3)
        d == DigitsEnd(t, s)
        k == IF d - s > 2 THEN s + 2 ELSE d
        c == IF At(t, k) = "," THEN k + 1 ELSE k
        y == SpacesEnd(t, c)
    IN  IF /\ <<Lower(At(t, i)), Lower(At(t, i + 1)), Lower(At(t, i + 2))>>
                 \in Months
           /\ s > i + 3
           /\ d > s
           /\ y > c
           /\ \A n \in 0..3 : IsDigit(At(t, y + n))
        THEN y + 4
        ELSE 0

\* the first alternative that matches at i
DateEnd(t, i) ==
    IF IsoDateEnd(t, i) # 0 THEN IsoDateEnd(t, i) ELSE MonthDateEnd(t, i)

\* the patterns of extract_numbers, by their context
Contexts == {"currency", "percentage", "number", "decimal", "date"}

MatchEnd(p, t, i) ==
    CASE p = "currency" -> CurrencyEnd(t, i)
      [] p = "percentage" -> PercentageEnd(t, i)
      [] p = "number" -> NumberEnd(t, i)
      [] p = "decimal" -> DecimalEnd(t, i)
      [] p = "date" -> DateEnd(t, i)

RECURSIVE FindAll(_, _, _)
\* re.finditer(pattern, text): the matches found scanning from index i, each
\* at the first index where the pattern matches, the search resuming after
\* the previous match
FindAll(p, t, i) ==
    LET J == {j \in i..Len(t) : MatchEnd(p, t, j) # 0}
    IN  IF J = {} THEN {}
        ELSE {SubSeq(t, Least(J), MatchEnd(p, t, Least(J)) - 1)}
                \cup FindAll(p, t, MatchEnd(p, t, Least(J)))

\* extract_numbers(text): the (number, context) pairs; the list is only ever
\* read as a set
extract_numbers(text) ==
    UNION {{<<m, p>> : m \in FindAll(p, text, 1)} : p \in Contexts}

(* ------------------------------ texts -------------------------------- *)

\* Apple Stock Rises 5% on Strong Earnings
AppleTitle ==
    <<"A", "p", "p", "l", "e", " ", "S", "t", "o", "c", "k", " ", "R", "i",
      "s", "e", "s", " ", "5", "%", " ", "o", "n", " ", "S", "t", "r", "o",
      "n", "g", " ", "E", "a", "r", "n", "i", "n", "g", "s">>

\* Apple Inc. reported strong quarterly earnings today, with revenue up 5% to $120.5B.
AppleContent ==
    <<"A", "p", "p", "l", "e", " ", "I", "n", "c", ".", " ", "r", "e", "p",
      "o", "r", "t", "e", "d", " ", "s", "t", "r", "o", "n", "g", " ", "q",
      "u", "a", "r", "t", "e", "r", "l", "y", " ", "e", "a", "r", "n", "i",
      "n", "g", "s", " ", "t", "o", "d", "a", "y", ",", " ", "w", "i", "t",
      "h", " ", "r", "e", "v", "e", "n", "u", "e", " ", "u", "p", " ", "5",
      "%", " ", "t", "o", " ", "$", "1", "2", "0", ".", "5", "B", ".">>

\* Quarterly results
ResultsTitle ==
    <<"Q", "u", "a", "r", "t", "e", "r", "l", "y", " ", "r", "e", "s", "u",
      "l", "t", "s">>

\* Revenue rose to $3.5B in the quarter, the company said.
ResultsContent ==
    <<"R", "e", "v", "e", "n", "u", "e", " ", "r", "o", "s", "e", " ", "t",
      "o", " ", "$", "3", ".", "5", "B", " ", "i", "n", " ", "t", "h", "e",
      " ", "q", "u", "a", "r", "t", "e", "r", ",", " ", "t", "h", "e", " ",
      "c", "o", "m", "p", "a", "n", "y", " ", "s", "a", "i", "d", ".">>

\* Revenue rose sharply in the quarter
ResultsRaw ==
    <<"R", "e", "v", "e", "n", "u", "e", " ", "r", "o", "s", "e", " ", "s",
      "h", "a", "r", "p", "l", "y", " ", "i", "n", " ", "t", "h", "e", " ",
      "q", "u", "a", "r", "t", "e", "r">>

\* Shares rose 7% after the company reported record sales of 1,250,000 units on Jan 15, 2024
SharesTitle ==
    <<"S", "h", "a", "r", "e", "s", " ", "r", "o", "s", "e", " ", "7", "%",
      " ", "a", "f", "t", "e", "r", " ", "t", "h", "e", " ", "c", "o", "m",
      "p", "a", "n", "y", " ", "r", "e", "p", "o", "r", "t", "e", "d", " ",
      "r", "e", "c", "o", "r", "d", " ", "s", "a", "l", "e", "s", " ", "o",
      "f", " ", "1", ",", "2", "5", "0", ",", "0", "0", "0", " ", "u", "n",
      "i", "t", "s", " ", "o", "n", " ", "J", "a", "n", " ", "1", "5", ",",
      " ", "2", "0", "2", "4">>

\* Markets
MarketsTitle ==
    <<"M", "a", "r", "k", "e", "t", "s">>

\* Stocks up.\n\nBonds down.
MarketsContent ==
    <<"S", "t", "o", "c", "k", "s", " ", "u", "p", ".", "\n", "\n", "B",
      "o", "n", "d", "s", " ", "d", "o", "w", "n", ".">>

\* Outlook
OutlookTitle ==
    <<"O", "u", "t", "l", "o", "o", "k">>

\* Costs rose 4.5% as margins fell in the third quarter
OutlookContent ==
    <<"C", "o", "s", "t", "s", " ", "r", "o", "s", "e", " ", "4", ".", "5",
      "%", " ", "a", "s", " ", "m", "a", "r", "g", "i", "n", "s", " ", "f",
      "e", "l", "l", " ", "i", "n", " ", "t", "h", "e", " ", "t", "h", "i",
      "r", "d", " ", "q", "u", "a", "r", "t", "e", "r">>

\* Outlook for margins
MarginsTitle ==
    <<"O", "u", "t", "l", "o", "o", "k", " ", "f", "o", "r", " ", "m", "a",
      "r", "g", "i", "n", "s">>

\* Margin fell to 2.5 points as costs rose quickly this year
MarginsContent ==
    <<"M", "a", "r", "g", "i", "n", " ", "f", "e", "l", "l", " ", "t", "o",
      " ", "2", ".", "5", " ", "p", "o", "i", "n", "t", "s", " ", "a", "s",
      " ", "c", "o", "s", "t", "s", " ", "r", "o", "s", "e", " ", "q", "u",
      "i", "c", "k", "l", "y", " ", "t", "h", "i", "s", " ", "y", "e", "a",
      "r">>

\* Brief
BriefTitle ==
    <<"B", "r", "i", "e", "f">>

\* Short note
BriefRaw ==
    <<"S", "h", "o", "r", "t", " ", "n", "o", "t", "e">>

\* more 
More ==
    <<"m", "o", "r", "e", " ">>

(* ---------------------- extract_key_sentences ------------------------ *)

\* [.!?]
IsTerminator(c) == c \in {".", "!", "?"}

RECURSIVE TerminatorsEnd(_, _)
\* [.!?]+ at i, greedy
TerminatorsEnd(t, i) ==
    IF IsTerminator(At(t, i)) THEN TerminatorsEnd(t, i + 1) ELSE i

RECURSIVE Split(_, _)
\* re.split(r"[.!?]+", text) from index i on
Split(t, i) ==
    LET J == {j \in i..Len(t) : IsTerminator(t[j])}
    IN  IF J = {} THEN <<SubSeq(t, i, Len(t))>>
        ELSE <<SubSeq(t, i, Least(J) - 1)>>
                \o Split(t, TerminatorsEnd(t, Least(J)))

\* s.strip()
Strip(s) ==
    LET I == {i \in 1..Len(s) : ~IsSpace(s[i])}
    IN  IF I = {} THEN <<>>
        ELSE SubSeq(s, Least(I), Greatest(I))

LongEnough(s) == Len(s) > 20

\* [s.strip() for s in sentences if len(s.strip()) > 20]
Sentences(text) ==
    LET pieces == Split(text, 1)
    IN  SelectSeq([i \in 1..Len(pieces) |-> Strip(pieces[i])], LongEnough)

\* v in s
Contains(s, v) ==
    \E k \in 1..(Len(s) - Len(v) + 1) : SubSeq(s, k, k + Len(v) - 1) = v

action_verbs ==
    {<<"a", "n", "n", "o", "u", "n", "c", "e", "d">>,
     <<"r", "e", "p", "o", "r", "t", "e", "d">>,
     <<"s", "a", "i", "d">>,
     <<"r", "e", "v", "e", "a", "l", "e", "d">>,
     <<"c", "o", "n", "f", "i", "r", "m", "e", "d">>,
     <<"d", "e", "c", "l", "i", "n", "e", "d">>,
     <<"r", "o", "s", "e">>,
     <<"f", "e", "l", "l">>,
     <<"g", "a", "i", "n", "e", "d">>,
     <<"l", "o", "s", "t">>}

\* len(sentence.split())
WordCount(s) ==
    Cardinality({k \in 1..Len(s) :
                    ~IsSpace(s[k]) /\ (k = 1 \/ IsSpace(s[k - 1]))})

\* the score of the i-th sentence
Score(S, i) ==
    (IF i = 1 THEN 10 ELSE 0)
    + (IF \E k \in 1..Len(S[i]) : IsDigit(S[i][k]) THEN 5 ELSE 0)
    + (IF \E v \in action_verbs : Contains(LowerStr(S[i]), v) THEN 3 ELSE 0)
    + (IF WordCount(S[i]) \in 10..30 THEN 2 ELSE 0)

RECURSIVE TopN(_, _, _)
\* scored_sentences.sort(reverse=True, key=score)[:n]: the sort is stable, so
\* of two sentences with the same score the earlier one comes first
TopN(score, I, n) ==
    IF n = 0 \/ I = {} THEN <<>>
    ELSE LET b == CHOOSE i \in I :
                     \A j \in I : \/ score[i] > score[j]
                                  \/ score[i] = score[j] /\ i <= j
         IN  <<b>> \o TopN(score, I \ {b}, n - 1)

extract_key_sentences(text, max_sentences) ==
    LET S == Sentences(text)
        score == [i \in 1..Len(S) |-> Score(S, i)]
        top == TopN(score, 1..Len(S), max_sentences)
    IN  [k \in 1..Len(top) |-> S[top[k]]]

(* -------------------- verify_numerical_consistency ------------------- *)

\* {num for num, _ in numbers}
Values(numbers) == {n[1] : n \in numbers}

\* a mutant of verify_numerical_consistency: every summary is accepted
verify_always(summary, original_text) == TRUE

verify_numerical_consistency(summary, original_text) ==
    \A num \in Values(extract_numbers(summary)) :
        num \in Values(extract_numbers(original_text))

(* -------------------------- generate_summary ------------------------- *)

\* bool(x) of an Optional[str]: neither None nor ""
Truthy(x) == x # NULL /\ x[1] # <<>>

RECURSIVE Join(_)
\* " ".join(parts)
Join(parts) ==
    IF parts = <<>> THEN <<>>
    ELSE IF Len(parts) = 1 THEN parts[1]
    ELSE parts[1] \o <<" ">> \o Join(Tail(parts))

\* s[:300]
Prefix(s) == SubSeq(s, 1, IF Len(s) > 300 THEN 300 ELSE Len(s))

Ellipsis == <<".", ".", ".">>

\* content.split("\n\n")[0]
FirstParagraph(c) ==
    LET I == {i \in 1..(Len(c) - 1) : c[i] = "\n" /\ c[i + 1] = "\n"}
    IN  IF I = {} THEN c
        ELSE SubSeq(c, 1, Least(I) - 1)

\* summary_raw[:300] + ("..." if len(summary_raw) > 300 else "")
RawFallback(s) == Prefix(s) \o (IF Len(s) > 300 THEN Ellipsis ELSE <<>>)

\* " ".join([title, content or summary_raw])
FullText(title, content, summary_raw) ==
    IF Truthy(content) THEN Join(<<title, content[1]>>)
    ELSE IF Truthy(summary_raw) THEN Join(<<title, summary_raw[1]>>)
    ELSE title

generate_summary(title, content, summary_raw) ==
    LET full_text == FullText(title, content, summary_raw)
        key_sentences == extract_key_sentences(full_text, 2)
        summary == Join(key_sentences)
        is_verified == verify_numerical_consistency(summary, full_text)
    IN  IF key_sentences = <<>>
        THEN [summary |-> IF Truthy(content)
                          THEN Prefix(FirstParagraph(content[1])) \o Ellipsis
                          ELSE IF Truthy(summary_raw)
                               THEN RawFallback(summary_raw[1])
                               ELSE title,
              verified |-> FALSE]
        ELSE IF ~is_verified /\ Truthy(summary_raw)
             THEN [summary |-> RawFallback(summary_raw[1]), verified |-> FALSE]
             ELSE [summary |-> summary, verified |-> is_verified]

(* ------------------------- the articles table ------------------------ *)

\* a summary_raw of 305 characters: "more " 61 times
LongRaw == [i \in 1..305 |-> More[((i - 1) % 5) + 1]]

SumArticleIds == {"b1", "b2", "b3", "b4", "b5", "b6", "b7", "b8"}

\* SELECT id, title, content, summary_raw FROM articles
SumRow(b) ==
    CASE b = "b1" -> [title |-> AppleTitle, content |-> Some(AppleContent),
                      summary_raw |-> NULL]
      [] b = "b2" -> [title |-> ResultsTitle, content |-> Some(ResultsContent),
                      summary_raw |-> Some(ResultsRaw)]
      [] b = "b3" -> [title |-> SharesTitle, content |-> NULL,
                      summary_raw |-> NULL]
      [] b = "b4" -> [title |-> MarketsTitle, content |-> Some(MarketsContent),
                      summary_raw |-> NULL]
      [] b = "b5" -> [title |-> MarketsTitle, content |-> Some(<<>>),
                      summary_raw |-> NULL]
      [] b = "b6" -> [title |-> OutlookTitle, content |-> Some(OutlookContent),
                      summary_raw |-> Some(LongRaw)]
      [] b = "b7" -> [title |-> BriefTitle, content |-> NULL,
                      summary_raw |-> Some(BriefRaw)]
      [] b = "b8" -> [title |-> MarginsTitle, content |-> Some(MarginsContent),
                      summary_raw |-> NULL]

\* payload["article_ids"] of the summarization jobs that are executed
SumPayloads ==
    {{}, {"b1"}, {"b1", "b2", "b3"}, {"b2", "b6"}, {"b3", "b5", "b8"},
     {"b4", "b5", "b6", "b7"}}

(* ------------------- SummarizationWorker.process_job ------------------ *)

NoSummaries ==
    [summaries_generated |-> 0, summaries_verified |-> 0,
     summaries_failed |-> 0]

\* generate_summary(article["title"], article["content"],
\* article["summary_raw"]) of every row
Summaries ==
    [b \in SumArticleIds |->
        generate_summary(SumRow(b).title, SumRow(b).content,
                         SumRow(b).summary_raw)]

\* summary, is_verified = generate_summary(..) for article b
Generated(b) ==
    [id |-> b, summary |-> Summaries[b].summary,
     verified |-> Summaries[b].verified]

\* process_job is called: ValueError on an empty article_ids, else
\* _fetch_articles (no ORDER BY: the rows come in any order)
SumStart(ids) ==
    /\ spc = "idle"
    /\ sruns < MaxSumRuns
    /\ sruns' = sruns + 1
    /\ spayload' = ids
    /\ sreturned' = NULL
    /\ generated' = NULL
    /\ scounters' = NoSummaries
    /\ IF ids = {}
       THEN /\ spc' = "idle"
            /\ UNCHANGED <<sfetched, stodo>>
       ELSE /\ spc' = "loop"
            /\ sfetched' = ids \cap SumArticleIds
            /\ stodo' = ids \cap SumArticleIds
    /\ UNCHANGED <<now, qvars, dvars, bvars, summary_2>>

\* one iteration of the loop without an exception: generate_summary,
\* _update_article_summary (one committed UPDATE), the counters
SummarizeArticle ==
    /\ spc = "loop"
    /\ \E b \in stodo :
          /\ generated' = Some(Generated(b))
          /\ summary_2' = [summary_2 EXCEPT ![b] = Some(Generated(b).summary)]
          /\ scounters' =
                [scounters EXCEPT
                    !.summaries_generated = @ + 1,
                    !.summaries_verified =
                        IF Generated(b).verified THEN @ + 1 ELSE @]
          /\ stodo' = stodo \ {b}
    /\ UNCHANGED <<now, qvars, dvars, bvars, spc, sfetched, sreturned, sruns,
                   spayload>>

\* a mutant of FailArticle: the exception of the UPDATE leaves process_job
FailArticleAborts ==
    /\ spc = "loop"
    /\ \E b \in stodo : generated' = Some(Generated(b))
    /\ spc' = "idle"
    /\ sfetched' = {}
    /\ stodo' = {}
    /\ scounters' = NoSummaries
    /\ UNCHANGED <<now, qvars, dvars, bvars, summary_2, sreturned, sruns, spayload>>

\* one iteration in which _update_article_summary raises: get_cursor rolls
\* the UPDATE back, except Exception counts the article as failed
FailArticle ==
    /\ spc = "loop"
    /\ \E b \in stodo :
          /\ generated' = Some(Generated(b))
          /\ stodo' = stodo \ {b}
    /\ scounters' = [scounters EXCEPT !.summaries_failed = @ + 1]
    /\ UNCHANGED <<now, qvars, dvars, bvars, summary_2, spc, sfetched, sreturned,
                   sruns, spayload>>

\* the loop is over: return the result; the locals are gone
SumReturn ==
    /\ spc = "loop"
    /\ stodo = {}
    /\ sreturned' =
          Some([articles_processed |-> Cardinality(sfetched),
                summaries_generated |-> scounters.summaries_generated,
                summaries_verified |-> scounters.summaries_verified,
                summaries_failed |-> scounters.summaries_failed])
    /\ spc' = "idle"
    /\ sfetched' = {}
    /\ scounters' = NoSummaries
    /\ UNCHANGED <<now, qvars, dvars, bvars, summary_2, stodo, sruns, generated,
                   spayload>>

\* no summarization job has been executed
SumIdle ==
    /\ summary_2 = [b \in SumArticleIds |-> NULL]
    /\ spc = "idle"
    /\ sfetched = {}
    /\ stodo = {}
    /\ scounters = NoSummaries
    /\ sreturned = NULL
    /\ sruns = 0
    /\ generated = NULL
    /\ spayload = {}

(* ============================= lib/db.py ============================== *)

MaxOps == 2
MaxWrites == 2
MaxVal == 2

\* the rows a body writes, and the values it writes to them
Keys == {"k1", "k2"}
Vals == 1..MaxVal

\* what ends the body of a with get_cursor() block: it returns ("none") or
\* raises an Exception or a BaseException that is no Exception
Raised == {"Exception", "KeyboardInterrupt"}

\* cursor.execute of a write: the transaction of the connection sees it
execute(c, k, v) == [work |-> [c.work EXCEPT ![k] = v], status |-> "intrans"]

\* conn.commit(): the connection is idle, its rows are the committed ones
commit(c) == [work |-> c.work, status |-> "idle"]

\* conn.rollback(): the transaction's writes are dropped
rollback(c, rows) == [work |-> rows, status |-> "idle"]

\* a mutant of ExitStep: the commit is in the finally clause
CommitAlways(e) == "commit"

\* get_cursor after the yield: conn.commit() when the body returned, the
\* except Exception clause when it raised one, the finally clause otherwise
ExitStep(e) ==
    IF e = "none" THEN "commit"
    ELSE IF e = "Exception" THEN "rollback"
    ELSE "close"

\* with get_cursor(): get_connection() takes a connection out of the pool
\* (the pool is initialized and has one free), conn.cursor(), yield
GetCursor ==
    /\ dbpc = "idle"
    /\ ops < MaxOps
    /\ used' = used + 1
    /\ entry' = [committed |-> committed, used |-> used]
    /\ expected' = committed
    /\ exc' = "none"
    /\ fate' = "none"
    /\ nwrites' = 0
    /\ commits' = 0
    /\ dbpc' = "body"
    /\ UNCHANGED <<now, qvars, dvars, svars, committed, conn, ops>>

\* the body: cursor.execute(query, params) of an INSERT or UPDATE
Execute(k, v) ==
    /\ dbpc = "body"
    /\ nwrites < MaxWrites
    /\ conn' = execute(conn, k, v)
    /\ expected' = [expected EXCEPT ![k] = v]
    /\ nwrites' = nwrites + 1
    /\ UNCHANGED <<now, qvars, dvars, svars, committed, used, dbpc, exc,
                   commits, ops, entry, fate>>

\* the body ends without an error
BodyReturns ==
    /\ dbpc = "body"
    /\ fate' = "ok"
    /\ dbpc' = ExitStep("none")
    /\ UNCHANGED <<now, qvars, dvars, svars, committed, conn, used, exc,
                   nwrites, commits, ops, entry, expected>>

\* the body raises e, which is thrown into get_cursor at its yield
BodyRaises(e) ==
    /\ dbpc = "body"
    /\ fate' = e
    /\ exc' = e
    /\ dbpc' = ExitStep(e)
    /\ UNCHANGED <<now, qvars, dvars, svars, committed, conn, used, nwrites,
                   commits, ops, entry, expected>>

\* conn.commit()
Commit ==
    /\ dbpc = "commit"
    /\ committed' = conn.work
    /\ conn' = commit(conn)
    /\ commits' = commits + 1
    /\ dbpc' = "close"
    /\ UNCHANGED <<now, qvars, dvars, svars, used, exc, nwrites, ops, entry,
                   expected, fate>>

\* except Exception: conn.rollback(); raise
Rollback ==
    /\ dbpc = "rollback"
    /\ conn' = rollback(conn, committed)
    /\ dbpc' = "close"
    /\ UNCHANGED <<now, qvars, dvars, svars, committed, used, exc, nwrites,
                   commits, ops, entry, expected, fate>>

\* finally: cursor.close()
CursorClose ==
    /\ dbpc = "close"
    /\ dbpc' = "putconn"
    /\ UNCHANGED <<now, qvars, dvars, svars, committed, conn, used, exc,
                   nwrites, commits, ops, entry, expected, fate>>

\* get_connection, finally: _connection_pool.putconn(conn).  psycopg2 rolls
\* back a connection that comes back inside a transaction.
PutConn ==
    /\ dbpc = "putconn"
    /\ conn' = IF conn.status # "idle" THEN rollback(conn, committed) ELSE conn
    /\ used' = used - 1
    /\ ops' = ops + 1
    /\ dbpc' = "idle"
    /\ UNCHANGED <<now, qvars, dvars, svars, committed, exc, nwrites, commits,
                   entry, expected, fate>>

\* no get_cursor block is open: every row is 0, the connection is in the pool
DbIdle ==
    /\ committed = [k \in Keys |-> 0]
    /\ conn = [work |-> committed, status |-> "idle"]
    /\ used = 0
    /\ dbpc = "idle"
    /\ exc = "none"
    /\ nwrites = 0
    /\ commits = 0
    /\ ops = 0
    /\ entry = [committed |-> committed, used |-> 0]
    /\ expected = committed
    /\ fate = "none"

(* --------------------------- the queue ------------------------------- *)

\* a row as the enqueuer inserts it
NewJob(T, m, s) ==
    [type |-> T, status |-> "pending", attempts |-> 0, max_attempts |-> m,
     scheduled_for |-> s, started_at |-> NULL, completed_at |-> NULL,
     result |-> NULL, error_message |-> NULL, updated_at |-> NULL]

QueueInit ==
    /\ now \in MinStart..MaxNow
    /\ \E m \in 0..MaxMaxAttempts, s \in {now, now + 1} :
          jobs = [j \in JobIds |->
                    CASE j = "j1" -> NewJob("deduplication", m, now)
                      [] j = "j2" -> NewJob("deduplication", 1, s)
                      [] OTHER    -> NewJob("summarization", 1, now)]
    /\ locked = [j \in JobIds |-> NoWorker]
    /\ running = [w \in Workers |-> FALSE]
    /\ pc = [w \in Workers |-> "init"]
    /\ job = [w \in Workers |-> NoJob]
    /\ outcome = [w \in Workers |-> "none"]
    /\ nclaims = [j \in JobIds |-> 0]
    /\ nretries = [j \in JobIds |-> 0]
    /\ pool = [w \in Workers |-> "none"]

Init == QueueInit /\ DedupIdle /\ SumIdle /\ DbIdle

Next ==
    \/ Tick
    \/ \E w \in Workers :
          \/ Start(w)
          \/ DequeueExecute(w)
          \/ DequeueCommit(w)
          \/ ProcessJob(w)
          \/ CompleteJob(w)
          \/ FailJob(w)
          \/ Sleep(w)

Spec == Init /\ [][Next]_vars

(* ------------------------ the queue, interrupted ---------------------- *)

\* two jobs of the workers' type are due at 58 or 59 minutes past the hour
StopInit ==
    /\ Init
    /\ now \in {58, 59}
    /\ jobs["j1"].max_attempts = 2
    /\ jobs["j2"].scheduled_for = now

StopNext ==
    \E w \in Workers :
        \/ Start(w)
        \/ DequeueExecute(w)
        \/ DequeueCommit(w)
        \/ ProcessJob(w)
        \/ CompleteJob(w)
        \/ FailJob(w)
        \/ Sleep(w)
        \/ Interrupt(w)

SpecStop == StopInit /\ [][StopNext]_vars

(* ----------------------- the deduplication --------------------------- *)

\* no worker has started
QueueIdle ==
    /\ jobs = [j \in JobIds |-> NewJob("deduplication", 1, 0)]
    /\ locked = [j \in JobIds |-> NoWorker]
    /\ running = [w \in Workers |-> FALSE]
    /\ pc = [w \in Workers |-> "init"]
    /\ job = [w \in Workers |-> NoJob]
    /\ outcome = [w \in Workers |-> "none"]
    /\ nclaims = [j \in JobIds |-> 0]
    /\ nretries = [j \in JobIds |-> 0]
    /\ pool = [w \in Workers |-> "none"]

DedupInit == now = 0 /\ QueueIdle /\ DedupIdle /\ SumIdle /\ DbIdle

DedupNext ==
    \/ DedupTick
    \/ \E ids \in Payloads : DedupStart(ids)
    \/ UpdateArticleSimhash
    \/ AssignToCluster
    \/ RecomputeRepresentative
    \/ CreateCluster
    \/ DedupReturn
    \/ DedupRaise

SpecDedup == DedupInit /\ [][DedupNext]_vars

(* ----------------------- the summarization --------------------------- *)

SumInit == now = 0 /\ QueueIdle /\ DedupIdle /\ SumIdle /\ DbIdle

SumNext ==
    \/ \E ids \in SumPayloads : SumStart(ids)
    \/ SummarizeArticle
    \/ FailArticle
    \/ SumReturn

SpecSum == SumInit /\ [][SumNext]_vars

(* --------------------- get_cursor blocks, alone ----------------------- *)

DbInit == now = 0 /\ QueueIdle /\ DedupIdle /\ SumIdle /\ DbIdle

DbNext ==
    \/ GetCursor
    \/ \E k \in Keys, v \in Vals : Execute(k, v)
    \/ BodyReturns
    \/ \E e \in Raised : BodyRaises(e)
    \/ Commit
    \/ Rollback
    \/ CursorClose
    \/ PutConn

SpecDb == DbInit /\ [][DbNext]_vars

(* ============================ the claims ============================== *)

\* the workers a job has been returned to and that have not marked it yet
Holders(j) ==
    {w \in Workers : job[w].id = j /\ pc[w] \in {"process", "complete", "fail", "crashed"}}

\* the workers that are in _dequeue_job or _execute_job with job j
InFlight(j) ==
    \E w \in Workers : job[w].id = j /\ pc[w] \in {"claim", "process", "complete", "fail"}

Terminal(j) == jobs[j].status \in {"completed", "failed"}

\* worker w leaves _fail_job in this step (by return or by an exception)
FailStep(w) == pc[w] = "fail" /\ pc'[w] # "fail"

\* C1: no double-claim.  A job is held by at most one worker, it is returned
\* by a claim at most once more than it was rescheduled to pending, and a poll
\* returns no row only when every eligible job is row-locked by another
\* worker's claim (one eligible job, two workers: one gets it, one sleeps).
C1_NoDoubleClaim ==
    /\ [](\A j \in JobIds :
            /\ Cardinality(Holders(j)) <= 1
            /\ nclaims[j] <= nretries[j] + 1)
    /\ [][\A w \in Workers :
            (pc[w] = "loop" /\ pc'[w] = "sleep") =>
                \A j \in JobIds :
                    (/\ jobs[j].type = job_type(w)
                     /\ jobs[j].status = "pending"
                     /\ jobs[j].scheduled_for <= now) =>
                        locked[j] \in Workers \ {w}]_vars

\* C1 witness: two workers polled against one eligible job; one is claiming
\* it, the other got no row and sleeps
C1_Witness ==
    \E w1, w2 \in Workers :
        /\ w1 # w2
        /\ pc[w1] = "claim" /\ pc[w2] = "sleep"
        /\ locked[job[w1].id] = w1
        /\ Cardinality({j \in JobIds : Eligible(j, job_type(w2), now)}) = 1

AllowedTransitions ==
    {<<"pending", "processing">>, <<"processing", "completed">>,
     <<"processing", "pending">>, <<"processing", "failed">>}

\* C2: every status change is pending->processing, processing->completed,
\* processing->pending or processing->failed; a completed or failed job
\* never changes status again.
C2_StatusTransitions ==
    [][\A j \in JobIds :
          jobs'[j].status # jobs[j].status =>
              <<jobs[j].status, jobs'[j].status>> \in AllowedTransitions]_vars

\* C2 witness: one job failed after a retry, another completed, and the
\* workers went on polling
C2_Witness ==
    /\ \E j \in JobIds : jobs[j].status = "failed" /\ nretries[j] >= 1
    /\ \E j \in JobIds : jobs[j].status = "completed"
    /\ \E w \in Workers : pc[w] = "sleep"

\* C3: whatever process_job or the completion update raises, at any wall-clock
\* time, the error is caught, stored in error_message, and the job moved out
\* of processing; no job stays in processing without a worker executing it
\* and no worker leaves its polling loop.
C3_ProcessJobTotal ==
    /\ \A j \in JobIds : jobs[j].status = "processing" => InFlight(j)
    /\ \A w \in Workers : pc[w] # "crashed"

\* C4: a failure with attempts < max_attempts sets status = pending, the error
\* message, and scheduled_for = now + 2^(attempts-1) minutes, at every minute
\* of the hour.
C4_BackoffIsDuration ==
    [][\A w \in Workers :
          (FailStep(w) /\ job[w].attempts < job[w].max_attempts) =>
              /\ jobs'[job[w].id].status = "pending"
              /\ jobs'[job[w].id].error_message = Some(outcome[w])
              /\ jobs'[job[w].id].scheduled_for = now + 2 ^ (job[w].attempts - 1)]_vars

\* C5: a failure with attempts >= max_attempts moves the job to failed with
\* error_message and completed_at set, and a failed job is never pending again.
C5_ExhaustedFails ==
    [][/\ \A w \in Workers :
            (FailStep(w) /\ job[w].attempts >= job[w].max_attempts) =>
                /\ jobs'[job[w].id].status = "failed"
                /\ jobs'[job[w].id].error_message = Some(outcome[w])
                /\ jobs'[job[w].id].completed_at = Some(now)
       /\ \A j \in JobIds :
            jobs[j].status = "failed" => jobs'[j].status = "failed"]_vars

\* C5 witness: a job failed at its last attempt, after a retry
C5_Witness ==
    \E j \in JobIds :
        /\ jobs[j].status = "failed"
        /\ jobs[j].attempts = jobs[j].max_attempts
        /\ nretries[j] >= 1
        /\ jobs[j].completed_at # NULL

\* attempts only changes in a claim, which adds exactly 1
AttemptsOnlyByClaim ==
    \A j \in JobIds :
        jobs'[j].attempts # jobs[j].attempts =>
            /\ jobs'[j].attempts = jobs[j].attempts + 1
            /\ jobs[j].status = "pending" /\ jobs'[j].status = "processing"

\* C6 as stated: for any integer max_attempts, attempts <= max_attempts, and
\* 1 <= attempts <= max_attempts in a terminal state.
C6_AttemptsBounded ==
    \A j \in JobIds :
        /\ jobs[j].attempts <= jobs[j].max_attempts
        /\ Terminal(j) => jobs[j].attempts >= 1

\* C6 amended: for every job enqueued with max_attempts >= 1, attempts <=
\* max_attempts, and 1 <= attempts in a terminal state; for every job,
\* attempts only changes in a claim, by exactly 1.
C6_AttemptsBoundedPositiveMax ==
    /\ [](\A j \in JobIds :
            jobs[j].max_attempts >= 1 =>
                /\ jobs[j].attempts <= jobs[j].max_attempts
                /\ Terminal(j) => jobs[j].attempts >= 1)
    /\ [][AttemptsOnlyByClaim]_vars

\* C6 witness: a job with max_attempts >= 2 reached a terminal state at its
\* last attempt
C6_Witness ==
    \E j \in JobIds :
        /\ Terminal(j)
        /\ jobs[j].max_attempts >= 2
        /\ jobs[j].attempts = jobs[j].max_attempts

\* C7: a job with max_attempts = M >= 1 whose executions all fail is claimed
\* M times: after the k-th failure, k < M, it is pending with scheduled_for
\* 2^(k-1) minutes after the failure and is not claimed before that instant;
\* after the M-th failure it is failed.
C7_RetrySchedule ==
    \A j \in JobIds :
        /\ (jobs[j].max_attempts >= 1 /\ jobs[j].attempts >= 1
                /\ ~InFlight(j) /\ jobs[j].status # "completed") =>
              IF jobs[j].attempts < jobs[j].max_attempts
              THEN /\ jobs[j].status = "pending"
                   /\ jobs[j].scheduled_for =
                          jobs[j].updated_at[1] + 2 ^ (jobs[j].attempts - 1)
                   /\ nclaims[j] = jobs[j].attempts
              ELSE /\ jobs[j].status = "failed"
                   /\ nclaims[j] = jobs[j].max_attempts
        /\ jobs[j].status = "processing" =>
              jobs[j].started_at[1] >= jobs[j].scheduled_for

\* C8: a claim by a worker of type T returns only a job that at the moment of
\* the claim has type T, is pending and has scheduled_for <= now; the claim
\* leaves every other job unchanged.
C8_ClaimOnlyEligible ==
    [][\A w \in Workers :
          /\ (pc[w] = "loop" /\ pc'[w] = "claim") =>
                /\ jobs[job'[w].id].type = job_type(w)
                /\ jobs[job'[w].id].status = "pending"
                /\ jobs[job'[w].id].scheduled_for <= now
                /\ jobs' = jobs
          /\ (pc[w] = "claim" /\ pc'[w] = "process") =>
                /\ jobs[job[w].id].type = job_type(w)
                /\ jobs[job[w].id].status = "pending"
                /\ jobs[job[w].id].scheduled_for <= job[w].at
                /\ \A k \in JobIds \ {job[w].id} : jobs'[k] = jobs[k]]_vars

\* C8 witness: a job was returned by a claim while another job of the
\* worker's type was pending in the future, one was in a terminal state and
\* one of another type was pending and due
C8_Witness ==
    \E w \in Workers :
        /\ pc[w] = "process"
        /\ \E k \in JobIds :
              /\ jobs[k].type = job_type(w)
              /\ jobs[k].status = "pending"
              /\ jobs[k].scheduled_for > now
        /\ \E k \in JobIds :
              /\ jobs[k].type # job_type(w)
              /\ jobs[k].status = "pending"
              /\ jobs[k].scheduled_for <= now

\* C9: a completed job has a non-null result, a failed job a non-null
\* error_message.
C9_TerminalFields ==
    \A j \in JobIds :
        /\ jobs[j].status = "completed" => jobs[j].result # NULL
        /\ jobs[j].status = "failed" => jobs[j].error_message # NULL

\* C9 witness: a completed job and a failed job
C9_Witness ==
    /\ \E j \in JobIds : jobs[j].status = "completed" /\ jobs[j].result = Some(ResultOk)
    /\ \E j \in JobIds : jobs[j].status = "failed" /\ jobs[j].error_message # NULL

\* C10: after any sequence of deduplication jobs, every cluster row has a
\* member article, and its rep_article_id is one of its members.
C10_ClusterInvariant ==
    \A c \in DOMAIN clusters :
        /\ Members(c) # {}
        /\ clusters[c] \in Members(c)

\* the last execution of process_job has returned and none has started since
Returned == dpc = "idle" /\ returned # NULL

\* C11: a second execution of the same deduplication job leaves every article
\* of the payload with the cluster_id it had after the first.
C11_DedupIdempotent ==
    Len(history) >= 2 =>
        \A a \in history[Len(history)].ids \cap ArticleIds :
            history[Len(history)].cluster_id[a] =
                history[Len(history) - 1].cluster_id[a]

\* the cluster rows without a member article
Spurious == {c \in DOMAIN clusters : Members(c) = {}}

\* C12: re-executing a deduplication job leaves at most one spurious cluster:
\* while every cluster was created by executions of one job, at most one
\* cluster has no member.
C12_OneSpuriousCluster ==
    (\A c \in DOMAIN clusters : origin[c].ids = payload.ids) =>
        Cardinality(Spurious) <= 1

\* LENGTH(COALESCE(content, summary_raw, title, ''))
CoalescedLength(a) ==
    LET r == ArticleRow(a)
        x == IF r.content # NULL THEN r.content
             ELSE IF r.summary_raw # NULL THEN r.summary_raw
             ELSE r.title
    IN  IF x = NULL THEN 0 ELSE x[1].len

\* a is not behind b: longer, or as long and more trusted, or as long and as
\* trusted and not published earlier
NotBehind(a, b) ==
    \/ CoalescedLength(a) > CoalescedLength(b)
    \/ /\ CoalescedLength(a) = CoalescedLength(b)
       /\ TrustOf(a) > TrustOf(b)
    \/ /\ CoalescedLength(a) = CoalescedLength(b)
       /\ TrustOf(a) = TrustOf(b)
       /\ ArticleRow(a).ts_published >= ArticleRow(b).ts_published

\* the members of c that the election rule allows as representative
Elected(c) == {a \in Members(c) : \A b \in Members(c) : NotBehind(a, b)}

\* C13: the representative is recomputed on every membership change, so after
\* every completed deduplication job the representative of each cluster that
\* has members is its greatest member by length, then trust, then recency.
C13_RepresentativeElected ==
    Returned => \A c \in DOMAIN clusters :
                    Members(c) # {} => clusters[c] \in Elected(c)

\* C14: a membership change and the recomputation of the representative are
\* one transaction: while no article has ever left a cluster (the first
\* execution), every committed state has each cluster's representative
\* elected over its current members.
C14_AssignAtomic ==
    runs <= 1 => \A c \in DOMAIN clusters :
                    Members(c) # {} => clusters[c] \in Elected(c)

\* more than 48 hours before the job runs
TooOld(a, t) == ArticleRow(a).ts_published < t - WindowMinutes

\* the articles of the payload that are in the window when the job runs
InWindow == {a \in payload.ids \cap ArticleIds : ~TooOld(a, payload.at)}

SameText(a, b) ==
    /\ ArticleRow(a).title = ArticleRow(b).title
    /\ ArticleRow(a).summary_raw = ArticleRow(b).summary_raw

C16_WindowExcludesOld ==
    /\ [](dpc # "idle" =>
            \A a \in payload.ids \cap ArticleIds :
                TooOld(a, payload.at) => a \notin fetched)
    /\ [](Returned =>
            returned[1].articles_processed = Cardinality(InWindow))
    /\ [][\A a \in payload'.ids \cap ArticleIds :
            TooOld(a, payload'.at) =>
                /\ articles'[a] = articles[a]
                /\ Len(clusters') > Len(clusters) =>
                      clusters'[Len(clusters')] # a]_vars

\* C16 witness: a job over all articles ran a minute after a2 left the
\* window: a2 keeps the cluster an earlier job gave it, a4 was never touched,
\* and three articles were processed
C16_Witness ==
    /\ Returned
    /\ payload = [ids |-> ArticleIds, at |-> 1]
    /\ returned[1].articles_processed = 3
    /\ articles["a2"].cluster_id # NULL
    /\ articles["a2"].cluster_id \notin
          {articles[a].cluster_id : a \in {"a1", "a3", "a5"}}
    /\ articles["a4"] = [simhash |-> NULL, cluster_id |-> NULL]

\* full_text of article b as generate_summary builds it
FullTextOf(b) == FullText(SumRow(b).title, SumRow(b).content, SumRow(b).summary_raw)

\* C17: whenever generate_summary returns verified = true, every numeric
\* literal extract_numbers finds in the returned summary is, as the same
\* string, among the literals it finds in full_text.
C17_NumbersPreserved ==
    (generated # NULL /\ generated[1].verified) =>
        Values(extract_numbers(generated[1].summary))
            \subseteq Values(extract_numbers(FullTextOf(generated[1].id)))

\* C17 witness: b3 was summarized and verified, and its summary carries a
\* percentage, a number with commas and a date
C17_Witness ==
    /\ generated # NULL
    /\ generated[1].id = "b3"
    /\ generated[1].verified
    /\ {n[2] : n \in extract_numbers(generated[1].summary)}
          = {"percentage", "number", "date"}

\* the summary extracted for article b exists and fails the verification
ExtractionRejected(b) ==
    LET key == extract_key_sentences(FullTextOf(b), 2)
    IN  /\ Len(key) > 0
        /\ ~verify_numerical_consistency(Join(key), FullTextOf(b))

\* C18: when the verification of the extracted summary fails, generate_summary
\* returns verified = false with the summary_raw fallback when summary_raw is
\* present and with the title when summary_raw is null.
C18_RejectedSummaryNotEmitted ==
    (generated # NULL /\ ExtractionRejected(generated[1].id)) =>
        /\ ~generated[1].verified
        /\ generated[1].summary =
              IF SumRow(generated[1].id).summary_raw # NULL
              THEN RawFallback(SumRow(generated[1].id).summary_raw[1])
              ELSE SumRow(generated[1].id).title

\* C19: scenario S1 (article b1): the summary contains the first sentence,
\* verified = true, and every percentage and currency literal of the summary
\* is a literal of the input.
C19_ScenarioS1 ==
    (generated # NULL /\ generated[1].id = "b1") =>
        /\ generated[1].verified
        /\ Contains(generated[1].summary, Sentences(FullTextOf("b1"))[1])
        /\ \A n \in extract_numbers(generated[1].summary) :
              n[2] \in {"percentage", "currency"} =>
                  n \in extract_numbers(FullTextOf("b1"))

\* C20: an error on one article never fails the summarization job nor stops
\* the remaining articles: the loop is left only by returning a result, once
\* no fetched article is left, every iteration takes one article off the
\* remaining ones, and the result has summaries_generated + summaries_failed
\* = articles_processed (every fetched row) and summaries_verified <=
\* summaries_generated.
C20_ArticleErrorsCounted ==
    /\ [](sreturned # NULL =>
            /\ sreturned[1].summaries_generated + sreturned[1].summaries_failed
                  = sreturned[1].articles_processed
            /\ sreturned[1].summaries_verified
                  <= sreturned[1].summaries_generated
            /\ sreturned[1].articles_processed
                  = Cardinality(spayload \cap SumArticleIds))
    /\ [][(spc = "loop" /\ spc' # "loop") =>
            (stodo = {} /\ sreturned' # NULL)]_vars
    /\ [][(spc = "loop" /\ spc' = "loop") =>
            (\E b \in stodo : stodo' = stodo \ {b})]_vars

\* C20 witness: a job of three articles returned after one of them failed
C20_Witness ==
    /\ sreturned # NULL
    /\ spayload = {"b1", "b2", "b3"}
    /\ sreturned[1] = [articles_processed |-> 3, summaries_generated |-> 2,
                       summaries_verified |-> 1, summaries_failed |-> 1]

\* the clusters the current execution of process_job has created
CreatedInThisJob == {c \in DOMAIN origin : origin[c].run = runs}

\* C26: within one deduplication job the articles are processed in
\* ts_published descending order, the index starts empty and only holds
\* clusters created earlier in the same job, and an article that is attached
\* to a cluster is attached to one created in this job whose founding article
\* is not older than it.
C26_NewestFirstAttachment ==
    /\ [](\A e \in lsh : e.key \in CreatedInThisJob)
    /\ [][(dpc = "idle" /\ dpc' = "loop") => lsh' = {}]_vars
    /\ [][(dpc = "loop" /\ dpc' = "query") =>
            \A b \in todo' :
                ArticleRow(article').ts_published >= ArticleRow(b).ts_published]_vars
    /\ [][(dpc = "query" /\ dpc' = "recompute") =>
            /\ target' \in CreatedInThisJob
            /\ articles'[article].cluster_id = Some(target')
            /\ ArticleRow(origin[target'].founder).ts_published
                  >= ArticleRow(article).ts_published]_vars

\* C26 witness: in a second execution a1 has just been attached to the
\* cluster that the newer a5 founded in this execution
C26_Witness ==
    /\ dpc = "recompute"
    /\ runs = 2
    /\ article = "a1"
    /\ origin[target].founder = "a5"
    /\ origin[target].run = 2

\* C27: when a deduplication job returns, every fetched article has a simhash
\* and a cluster_id of an existing cluster row, articles_clustered +
\* clusters_created = articles_processed, and clusters_created is the number
\* of cluster rows the job inserted.
C27_ReturnedJobAccounts ==
    Returned =>
        /\ \A a \in InWindow :
              /\ articles[a].simhash # NULL
              /\ articles[a].cluster_id # NULL
              /\ articles[a].cluster_id[1] \in DOMAIN clusters
        /\ returned[1].articles_processed = Cardinality(InWindow)
        /\ returned[1].articles_clustered + returned[1].clusters_created
              = returned[1].articles_processed
        /\ returned[1].clusters_created = Cardinality(CreatedInThisJob)

\* C27 witness: the second execution returned; it processed three of four
\* articles (a4 is out of the window), attached one and created two clusters
\* beside those of the first execution
C27_Witness ==
    /\ Returned
    /\ runs = 2
    /\ "a4" \in payload.ids
    /\ returned[1].articles_clustered >= 1
    /\ returned[1].clusters_created >= 2
    /\ Len(clusters) > returned[1].clusters_created

\* the jobs of worker w's type that are pending, due and not row-locked
Claimable(w) ==
    {k \in JobIds : /\ jobs[k].type = job_type(w)
                    /\ jobs[k].status = "pending"
                    /\ jobs[k].scheduled_for <= now
                    /\ locked[k] = NoWorker}

\* C25: a claim takes a job with the smallest scheduled_for among the jobs of
\* the worker's type that are pending, due and not row-locked at that moment;
\* it returns no row only when there is no such job, and the worker sleeps
\* only after such a claim.
C25_ClaimOrder ==
    [][\A w \in Workers :
          /\ (pc[w] = "loop" /\ pc'[w] = "claim") =>
                /\ job'[w].id \in Claimable(w)
                /\ \A k \in Claimable(w) :
                      jobs[job'[w].id].scheduled_for <= jobs[k].scheduled_for
          /\ (pc[w] # "sleep" /\ pc'[w] = "sleep") =>
                (pc[w] = "loop" /\ Claimable(w) = {})]_vars

\* C25 witness: a worker has taken j1 while j2, scheduled later, was also
\* pending, due and unlocked
C25_Witness ==
    \E w \in Workers :
        /\ pc[w] = "claim"
        /\ job[w].id = "j1"
        /\ jobs["j2"].status = "pending"
        /\ jobs["j2"].scheduled_for <= job[w].at
        /\ jobs["j2"].scheduled_for > jobs["j1"].scheduled_for
        /\ locked["j2"] = NoWorker

\* start() of worker w has returned or an error has left it
Exited(w) == pc[w] \in {"stopped", "crashed"}

\* C21: whenever start() has initialized the pool and then returns, running
\* is false and the connection pool of the process has been closed.
C21_TeardownClosesPool ==
    \A w \in Workers :
        Exited(w) => (~running[w] /\ pool[w] = close_pool(pool[w]))

\* C22: an interrupt during a claimed job does not abort it: when the worker
\* has exited, the job it had claimed is completed, pending again or failed.
C22_InterruptDrains ==
    \A w \in Workers :
        (pc[w] = "stopped" /\ job[w].id \in JobIds) =>
            jobs[job[w].id].status \in {"completed", "pending", "failed"}

\* C23: a get_cursor block is one transaction.  Until its commit nothing
\* it wrote is visible.  When it is left: a body that returned was committed
\* exactly once and its writes are visible; a body that raised was never
\* committed, none of its writes is visible and its error propagates; either
\* way the connection is back in the pool, outside any transaction, and as
\* many connections are checked out as before.
C23_OneTransaction ==
    /\ dbpc \in {"body", "commit", "rollback"} => committed = entry.committed
    /\ (dbpc = "idle" /\ ops > 0) =>
          /\ used = entry.used
          /\ conn = [work |-> committed, status |-> "idle"]
          /\ fate = "ok" =>
                (commits = 1 /\ committed = expected /\ exc = "none")
          /\ fate # "ok" =>
                (commits = 0 /\ committed = entry.committed /\ exc = fate)

\* C23 witness: a first block committed a write, the second one wrote to
\* both rows and raised, and has been left
C23_Witness ==
    /\ dbpc = "idle"
    /\ ops = 2
    /\ fate = "Exception"
    /\ nwrites = 2
    /\ \A k \in Keys : expected[k] # entry.committed[k]
    /\ \E k \in Keys : committed[k] # 0

\* job j is in processing and the worker that claimed it has exited
Abandoned(j) ==
    /\ jobs[j].status = "processing"
    /\ \E w \in Workers : job[w].id = j /\ Exited(w)

\* C24: a job left in processing by a worker that terminated stays as it is
\* forever: no step changes its row, and no worker's claim takes it.
C24_NoLeaseExpiry ==
    [][\A j \in JobIds :
          Abandoned(j) =>
              /\ jobs'[j] = jobs[j]
              /\ Abandoned(j)'
              /\ \A w \in Workers : pc'[w] = "claim" => job'[w].id # j]_vars

\* C24 witness: j1 was left in processing by a worker that exited, it is of
\* the other worker's type and its scheduled_for has passed, and the other
\* worker has since claimed and finished j2 and gone to sleep
C24_Witness ==
    \E w, v \in Workers :
        /\ Abandoned("j1")
        /\ job[w].id = "j1"
        /\ Exited(w)
        /\ jobs["j1"].scheduled_for <= now
        /\ pc[v] = "sleep"
        /\ jobs["j2"].status \in {"completed", "failed"}

=============================================================================
